---- MODULE Spec2Model ----
(***************************************************************************)
(* The projection / budget-vs-actual engine of backend/services/           *)
(* calculations.py as a state machine.                                     *)
(*                                                                         *)
(* Numbers.  Python floats are modelled as exact decimal fixed point:      *)
(* every monetary value is an integer number of thousandths (1000 = 1.00,  *)
(* 125 = 0.125), rates are exact fractions [num, den].  The records the    *)
(* model draws are chosen so that every product and quotient the code      *)
(* forms is a whole number of thousandths, so no division below loses      *)
(* anything.  round(x, 2) is round-half-to-even on the exact value, which  *)
(* is what Python computes for values a float holds exactly (0.125, 0.375).*)
(*                                                                         *)
(* Dates are records [y, m, d]; Optional[...] values are sequences of      *)
(* length at most one (<<>> is None).                                      *)
(***************************************************************************)
EXTENDS Integers, Sequences, FiniteSets, TLC

VARIABLES
    db,             \* the record store read through the session (never written)
    start_year,     \* argument of the call
    years,          \* argument of the call
    initial_cash,   \* argument of the call
    pc,             \* position inside compute_budget_vs_actual / compute_projection
    error,          \* the exception that ended the call, "none" while there is none
    months,         \* generate_months(start_year, years)
    plans,          \* per contract id, what _collect_payment_plan returned
    revenue, variable_costs, cash_inflows, cash_outflows, fixed_costs,
    amortization, loan_interest, loan_principal,
    breakdown,      \* the list compute_projection returns
    actuals,        \* the dict aggregate_actuals returns
    rows            \* the list compute_budget_vs_actual returns

vars == <<db, start_year, years, initial_cash, pc, error, months, plans,
          revenue, variable_costs, cash_inflows, cash_outflows, fixed_costs,
          amortization, loan_interest, loan_principal, breakdown, actuals, rows>>

----------------------------------------------------------------------------
(* Bounds of the model *)

MaxYears == 2

----------------------------------------------------------------------------
(* Values *)

FISCAL_START_MONTH == 10

None == <<>>
Some(x) == <<x>>

Date(y, m, d) == [y |-> y, m |-> m, d |-> d]

\* a < b, a <= b on datetime.date
DateLT(a, b) ==
    \/ a.y < b.y
    \/ a.y = b.y /\ a.m < b.m
    \/ a.y = b.y /\ a.m = b.m /\ a.d < b.d

DateLE(a, b) == a = b \/ DateLT(a, b)

\* date + relativedelta(months=i), for the month-start dates the code adds to
\* (the day is 1, so relativedelta never clips it)
AddMonths(dt, i) ==
    LET idx == dt.y * 12 + (dt.m - 1) + i
    IN  [y |-> idx \div 12, m |-> (idx % 12) + 1, d |-> dt.d]

Frac(n, d) == [num |-> n, den |-> d]

\* x * r for a money value x and a rate r
MulRate(x, r) == (x * r.num) \div r.den

\* 1 + r
OnePlus(r) == Frac(r.den + r.num, r.den)

RECURSIVE Gcd(_, _)
Gcd(a, b) == IF b = 0 THEN a ELSE Gcd(b, a % b)

Abs(x) == IF x < 0 THEN -x ELSE x

\* the same rate in lowest terms, denominator positive
Reduce(r) ==
    LET g == Gcd(Abs(r.num), Abs(r.den))
    IN  IF g = 0 THEN r ELSE Frac(r.num \div g, r.den \div g)

RECURSIVE Pow(_, _)
Pow(b, n) == IF n <= 0 THEN 1 ELSE b * Pow(b, n - 1)

Range(s) == {s[i] : i \in DOMAIN s}

RECURSIVE SumSeq(_)
SumSeq(s) == IF s = <<>> THEN 0 ELSE Head(s) + SumSeq(Tail(s))

\* round(x, 2): to the nearest hundredth, ties to the even hundredth
round2(x) ==
    LET q == x \div 10
        r == x % 10
    IN  IF r < 5 THEN q * 10
        ELSE IF r > 5 THEN (q + 1) * 10
        ELSE IF q % 2 = 0 THEN q * 10 ELSE (q + 1) * 10

OfferType == {"one_off", "recurring", "license", "hardware"}
Recurrence == {"one_time", "monthly", "annual"}
ActualCategory == <<"revenue", "variable_costs", "fixed_costs",
                    "amortization", "loan_interest", "loan_principal">>

----------------------------------------------------------------------------
(* Pure functions of calculations.py *)

month_start(dt) == Date(dt.y, dt.m, 1)

generate_months(sy, ys) ==
    LET start == Date(sy, FISCAL_START_MONTH, 1)
    IN  [i \in 1..(ys * 12) |-> AddMonths(start, i - 1)]

\* offer_map.get(contract.offer_id): None when no offer has that id
ensure_offer_map(offers, id) ==
    LET hit == {i \in DOMAIN offers : offers[i].id = id}
    IN  IF hit = {} THEN None
        ELSE Some(offers[CHOOSE i \in hit : \A j \in hit : j <= i])


\* session_payment_events (lines 64-74): the contract's events due in the window
session_payment_events(events, contract, window) ==
    IF contract.id = 0 THEN <<>>
    ELSE LET InWindow(evt) == /\ evt.contract_id = contract.id
                              /\ month_start(evt.due_date) \in Range(window)
             sel == SelectSeq(events, InWindow)
         IN  [i \in DOMAIN sel |->
                [month |-> month_start(sel[i].due_date), amount |-> sel[i].amount]]

\* the recurrence-derived plan with the annual branch not testing the calendar month
synthetic_plan_every_month(contract, window) ==
    LET amount == contract.total_value * contract.quantity
        start  == month_start(contract.start_date)
        Bounded(m) == /\ DateLE(start, m)
                      /\ \/ contract.end_date = None
                         \/ DateLE(m, month_start(contract.end_date[1]))
        Entries(sel) == [i \in DOMAIN sel |-> [month |-> sel[i], amount |-> amount]]
    IN  IF contract.recurrence = "one_time"
            THEN <<[month |-> start, amount |-> amount]>>
        ELSE Entries(SelectSeq(window, Bounded))

\* the recurrence-derived plan (lines 49-62)
synthetic_plan(contract, window) ==
    LET amount == contract.total_value * contract.quantity
        start  == month_start(contract.start_date)
        Bounded(m) == /\ DateLE(start, m)
                      /\ \/ contract.end_date = None
                         \/ DateLE(m, month_start(contract.end_date[1]))
        Monthly(m) == Bounded(m)
        Annual(m)  == m.m = contract.start_date.m /\ Bounded(m)
        Entries(sel) == [i \in DOMAIN sel |-> [month |-> sel[i], amount |-> amount]]
    IN  IF contract.recurrence = "one_time"
            THEN <<[month |-> start, amount |-> amount]>>
        ELSE IF contract.recurrence = "monthly"
            THEN Entries(SelectSeq(window, Monthly))
        ELSE IF contract.recurrence = "annual"
            THEN Entries(SelectSeq(window, Annual))
        ELSE <<>>

\* _collect_payment_plan that adds the explicit events to the recurrence-derived plan
collect_payment_plan_merged(events, contract, window) ==
    session_payment_events(events, contract, window) \o synthetic_plan(contract, window)

\* _collect_payment_plan (lines 40-62)
collect_payment_plan(events, contract, window) ==
    LET explicit_events ==
            IF contract.id # 0
                THEN session_payment_events(events, contract, window)
                ELSE <<>>
    IN  IF explicit_events # <<>> THEN explicit_events
        ELSE synthetic_plan(contract, window)

\* Python truthiness of an Optional[float]: None and 0.0 are both falsy
Truthy(rate) == rate # None /\ rate[1].num # 0

\* the 0.88 of line 97
LicenseDefaultRate == Frac(22, 25)

\* lines 96-99: what one plan entry of `amount` adds to variable_costs
variable_cost_of(offer, amount) ==
    IF offer.offer_type = "license"
        THEN MulRate(amount, IF Truthy(offer.variable_cost_rate)
                                 THEN offer.variable_cost_rate[1]
                                 ELSE LicenseDefaultRate)
    ELSE IF Truthy(offer.variable_cost_rate)
        THEN MulRate(amount, offer.variable_cost_rate[1])
    ELSE 0

\* line 101 without the tax
cash_inflow_untaxed(contract, amount) == amount

\* line 101: what one plan entry of `amount` adds to cash_inflows
cash_inflow_of(contract, amount) == MulRate(amount, OnePlus(contract.tax_rate))

\* lines 93-95: what the entries of `plan` add to revenue[m]
plan_revenue_at(plan, m) ==
    SumSeq([i \in DOMAIN plan |-> IF plan[i].month = m THEN plan[i].amount ELSE 0])

\* lines 93-99: what the entries of `plan` add to variable_costs[m]
plan_variable_at(plan, offer, m) ==
    SumSeq([i \in DOMAIN plan |->
              IF plan[i].month = m THEN variable_cost_of(offer, plan[i].amount) ELSE 0])

\* lines 93, 100-101: what the entries of `plan` add to cash_inflows[m]
plan_inflow_at(plan, contract, m) ==
    SumSeq([i \in DOMAIN plan |->
              IF plan[i].month = m THEN cash_inflow_of(contract, plan[i].amount) ELSE 0])

\* lines 104-108: what one FixedCost adds to month m
fixed_cost_at(fixed, m) ==
    IF /\ DateLE(month_start(fixed.start_date), m)
       /\ \/ fixed.end_date = None
          \/ DateLE(m, month_start(fixed.end_date[1]))
        THEN fixed.monthly_amount
        ELSE 0

\* line 113
asset_monthly(asset) == asset.purchase_amount \div asset.amortization_months

\* line 118 with the purchase charged in every amortization month
asset_cash_every_month(asset, i) == asset.purchase_amount

\* line 118: the cash outflow of the asset's i-th month
asset_cash(asset, i) == IF i # 0 THEN 0 ELSE asset.purchase_amount

\* line 115
asset_month(asset, i) == AddMonths(month_start(asset.purchase_date), i)

\* lines 114-117: what the asset adds to amortization[m]
asset_amortization_at(asset, m) ==
    SumSeq([k \in 1..asset.amortization_months |->
              IF asset_month(asset, k - 1) = m THEN asset_monthly(asset) ELSE 0])

\* lines 114-118: what the asset adds to cash_outflows[m]
asset_outflow_at(asset, m) ==
    SumSeq([k \in 1..asset.amortization_months |->
              IF asset_month(asset, k - 1) = m THEN asset_cash(asset, k - 1) ELSE 0])

\* line 124
monthly_rate(loan) == Reduce(Frac(loan.annual_rate.num, loan.annual_rate.den * 12))

\* 1 - pow(1 + monthly_rate, -term_months) of line 125, as a fraction
annuity_denominator(loan) ==
    LET r == monthly_rate(loan)
        n == Abs(loan.term_months)
        up == Pow(r.den + r.num, n)
        dn == Pow(r.den, n)
    IN  IF loan.term_months >= 0 THEN Frac(up - dn, up) ELSE Frac(dn - up, dn)

\* line 125 (defined when the denominator is not 0)
loan_payment(loan) ==
    LET r == monthly_rate(loan)
        q == annuity_denominator(loan)
    IN  (loan.principal * r.num * q.den) \div (r.den * q.num)

\* lines 127-136: the entries the loop adds, from term index i on
RECURSIVE loan_loop(_, _, _, _)
loan_loop(loan, i, balance, window) ==
    IF i >= loan.term_months THEN <<>>
    ELSE LET m == AddMonths(month_start(loan.start_date), i)
         IN  IF m \notin Range(window)
                 THEN loan_loop(loan, i + 1, balance, window)
                 ELSE LET interest  == MulRate(balance, monthly_rate(loan))
                          principal == loan_payment(loan) - interest
                      IN  <<[month |-> m, interest |-> interest,
                             principal |-> principal,
                             payment |-> loan_payment(loan)]>>
                          \o loan_loop(loan, i + 1, balance - principal, window)

loan_schedule(loan, window) == loan_loop(loan, 0, loan.principal, window)

LoanSum(sched, m, field) ==
    SumSeq([i \in DOMAIN sched |-> IF sched[i].month = m THEN sched[i][field] ELSE 0])

\* cumulative_cash with the running balance dropped: each month restarts from the seed
cumulative_cash_restart(window, inflows, outflows, seed, i) ==
    IF i = 0 THEN seed
    ELSE seed + (inflows[window[i]] - outflows[window[i]])

\* lines 140, 149-150: cumulative_cash after the i-th month of the window
RECURSIVE cumulative_cash(_, _, _, _, _)
cumulative_cash(window, inflows, outflows, seed, i) ==
    IF i = 0 THEN seed
    ELSE cumulative_cash(window, inflows, outflows, seed, i - 1)
         + (inflows[window[i]] - outflows[window[i]])

\* lines 148, 152-162
monthly_breakdown(m, rev, var, fix, amort, interest, principal, cash) ==
    [month |-> m,
     revenue |-> round2(rev),
     variable_costs |-> round2(var),
     fixed_costs |-> round2(fix),
     amortization |-> round2(amort),
     loan_interest |-> round2(interest),
     loan_principal |-> round2(principal),
     ebt |-> round2(rev - var - fix - amort - interest),
     cash |-> round2(cash)]


\* aggregate_actuals (lines 167-174): a bucket per month that has an entry
aggregate_actuals(entries) ==
    LET ms == {month_start(entries[i].entry_date) : i \in DOMAIN entries}
    IN  [m \in ms |->
          [c \in Range(ActualCategory) |->
             SumSeq([i \in DOMAIN entries |->
                       IF /\ month_start(entries[i].entry_date) = m
                          /\ entries[i].category = c
                           THEN entries[i].amount ELSE 0])]]

\* line 188: actuals.get(month, {c: 0.0 for c in ActualCategory})
month_actuals(acts, month) ==
    IF month \in DOMAIN acts THEN acts[month]
    ELSE [c \in Range(ActualCategory) |-> 0]

\* line 195
actual_ebt(a) ==
    a["revenue"] - a["variable_costs"] - a["fixed_costs"]
    - a["amortization"] - a["loan_interest"]

\* lines 196-203
actual_cash_flow(a) ==
    a["revenue"] - a["variable_costs"] - a["fixed_costs"]
    - a["amortization"] - a["loan_interest"] - a["loan_principal"]

\* lines 184, 204: actual_cash after the i-th month of the budget
RECURSIVE actual_cash(_, _, _, _)
actual_cash(budget, acts, seed, i) ==
    IF i = 0 THEN seed
    ELSE actual_cash(budget, acts, seed, i - 1)
         + actual_cash_flow(month_actuals(acts, budget[i].month))

\* the variance with its operands swapped
variance_swapped(actual, budget_value) == round2(budget_value - actual)

\* the variance_* arguments of lines 222-243
variance_of(actual, budget_value) == round2(actual - budget_value)

\* the actual_* arguments of lines 221-242
reported_actual(actual) == round2(actual)

\* lines 206-245: one BudgetVsActualRow
budget_vs_actual_row(b, a, cash) ==
    [month |-> b.month,
     budget_revenue |-> b.revenue,
     actual_revenue |-> reported_actual(a["revenue"]),
     variance_revenue |-> variance_of(a["revenue"], b.revenue),
     budget_variable |-> b.variable_costs,
     actual_variable |-> reported_actual(a["variable_costs"]),
     variance_variable |-> variance_of(a["variable_costs"], b.variable_costs),
     budget_fixed |-> b.fixed_costs,
     actual_fixed |-> reported_actual(a["fixed_costs"]),
     variance_fixed |-> variance_of(a["fixed_costs"], b.fixed_costs),
     budget_amortization |-> b.amortization,
     actual_amortization |-> reported_actual(a["amortization"]),
     variance_amortization |-> variance_of(a["amortization"], b.amortization),
     budget_interest |-> b.loan_interest,
     actual_interest |-> reported_actual(a["loan_interest"]),
     variance_interest |-> variance_of(a["loan_interest"], b.loan_interest),
     budget_principal |-> b.loan_principal,
     actual_principal |-> reported_actual(a["loan_principal"]),
     variance_principal |-> variance_of(a["loan_principal"], b.loan_principal),
     budget_ebt |-> b.ebt,
     actual_ebt |-> reported_actual(actual_ebt(a)),
     variance_ebt |-> variance_of(actual_ebt(a), b.ebt),
     budget_cash |-> b.cash,
     actual_cash |-> reported_actual(cash),
     variance_cash |-> variance_of(cash, b.cash)]

----------------------------------------------------------------------------
(* The record store: the rows the model draws *)

Offer(id, t, rate) == [id |-> id, offer_type |-> t, variable_cost_rate |-> rate]

Contract(id, offer_id, sd, ed, rec, tv, q, tax) ==
    [id |-> id, offer_id |-> offer_id, start_date |-> sd, end_date |-> ed,
     recurrence |-> rec, total_value |-> tv, quantity |-> q, tax_rate |-> tax]

PaymentEvent(cid, due, amount) == [contract_id |-> cid, due_date |-> due, amount |-> amount]

FixedCost(amount, sd, ed) == [monthly_amount |-> amount, start_date |-> sd, end_date |-> ed]

Asset(pd, amount, n) == [purchase_date |-> pd, purchase_amount |-> amount, amortization_months |-> n]

Loan(p, rate, sd, n) == [principal |-> p, annual_rate |-> rate, start_date |-> sd, term_months |-> n]

ActualEntry(dt, c, amount) == [entry_date |-> dt, category |-> c, amount |-> amount]

EmptyDb == [offers |-> <<>>, contracts |-> <<>>, events |-> <<>>, fixed |-> <<>>,
            assets |-> <<>>, loans |-> <<>>, actuals |-> <<>>]

\* sequences of one or two rows of a pool
OneOrTwo(pool) == {<<x>> : x \in pool} \cup {<<x, y>> : x \in pool, y \in pool}

StartYears == {2024}
YearsArg == 1..MaxYears

OfferPool == {Offer(1, t, r) : t \in {"license", "recurring"},
                               r \in {None, Some(Frac(0, 1)), Some(Frac(1, 5))}}

ContractTerms == {<<100000, 2, Frac(1, 5)>>, <<10125, 1, Frac(1, 5)>>}

ContractPool ==
    {Contract(1, 1, sd, ed, rec, t[1], t[2], t[3]) :
        sd \in {Date(2024, 9, 15), Date(2024, 10, 1), Date(2024, 12, 15), Date(2025, 11, 15)},
        ed \in {None, Some(Date(2025, 2, 10)), Some(Date(2025, 12, 31))},
        rec \in Recurrence,
        t \in ContractTerms}

EventIn    == PaymentEvent(1, Date(2024, 11, 20), 50000)
EventIn2   == PaymentEvent(1, Date(2024, 11, 3), 125)
EventOut   == PaymentEvent(1, Date(2024, 8, 3), 70000)
EventLate  == PaymentEvent(1, Date(2025, 10, 5), 30000)
EventOther == PaymentEvent(2, Date(2024, 11, 20), 90000)

EventChoices == {<<>>, <<EventIn>>, <<EventOut>>, <<EventLate>>,
                 <<EventIn, EventOut>>, <<EventIn, EventIn2>>}

\* one offer, one contract that refers to it, its payment events
ContractDbs ==
    {[EmptyDb EXCEPT !.offers = <<o>>, !.contracts = <<c>>, !.events = e] :
        o \in OfferPool, c \in ContractPool, e \in EventChoices}

\* two contracts, one of which may refer to an offer that does not exist
PairPool ==
    {Contract(id, oid, Date(2024, 10, 1), None, rec, 100000, 1, Frac(1, 5)) :
        id \in {1, 2}, oid \in {1, 7}, rec \in {"one_time", "monthly"}}

PairDbs ==
    {[EmptyDb EXCEPT !.offers = <<Offer(1, "license", None)>>,
                     !.contracts = <<c1, c2>>, !.events = e] :
        c1 \in {c \in PairPool : c.id = 1},
        c2 \in {c \in PairPool : c.id = 2},
        e \in {<<>>, <<EventIn>>, <<EventOther>>, <<EventOther, EventIn>>}}

FixedPool ==
    {FixedCost(a, sd, ed) :
        a \in {1500000, 125},
        sd \in {Date(2024, 9, 15), Date(2024, 12, 1)},
        ed \in {None, Some(Date(2025, 1, 31)), Some(Date(2024, 8, 1))}}

FixedDbs == {[EmptyDb EXCEPT !.fixed = f] : f \in OneOrTwo(FixedPool)}

AssetPool ==
    {Asset(pd, 1200000, n) :
        pd \in {Date(2024, 9, 10), Date(2024, 10, 1), Date(2025, 8, 15)},
        n \in {-1, 0, 1, 3, 12}}

AssetDbs == {[EmptyDb EXCEPT !.assets = a] : a \in OneOrTwo(AssetPool)}

LoanPool ==
    {Loan(38000, r, sd, n) :
        r \in {Frac(0, 1), Frac(6, 1)},
        sd \in {Date(2024, 9, 10), Date(2024, 10, 1), Date(2025, 9, 1)},
        n \in {-1, 0, 1, 2, 3}}

GoodLoans == {l \in LoanPool : l.term_months > 0 /\ l.annual_rate.num # 0}

LoanDbs == {[EmptyDb EXCEPT !.loans = l] :
               l \in {<<x>> : x \in LoanPool} \cup
                     {<<x, y>> : x \in GoodLoans, y \in GoodLoans}}

\* a small budget (revenue 0.01 and 200.00, fixed costs 0.03) against recorded actuals
ActualPool ==
    {ActualEntry(dt, ActualCategory[k], a) :
        dt \in {Date(2024, 10, 5), Date(2024, 11, 20)},
        k \in DOMAIN ActualCategory,
        a \in {125, 50370}}

ActualDbs ==
    {[EmptyDb EXCEPT
        !.offers = <<Offer(1, "recurring", None)>>,
        !.contracts = <<Contract(1, 1, Date(2024, 10, 1), None, "one_time", 10, 1, Frac(0, 1)),
                        Contract(2, 1, Date(2024, 12, 1), None, "monthly", 100000, 2, Frac(1, 5))>>,
        !.fixed = <<FixedCost(30, Date(2024, 10, 1), None)>>,
        !.actuals = a] : a \in OneOrTwo(ActualPool)}

\* every kind of record at once
MixedDbs ==
    {[offers |-> <<Offer(1, "license", None)>>,
      contracts |-> <<Contract(1, 1, Date(2024, 10, 1), None, "monthly", 10125, 1, Frac(1, 5))>>,
      events |-> e,
      fixed |-> <<FixedCost(1500125, Date(2024, 12, 1), None)>>,
      assets |-> <<Asset(Date(2024, 10, 1), 1200000, n)>>,
      loans |-> <<l>>,
      actuals |-> a] :
        e \in {<<>>, <<EventIn2>>},
        n \in {3, 12},
        l \in {x \in GoodLoans : x.start_date.y = 2024},
        a \in {<<>>, <<ActualEntry(Date(2024, 10, 5), "revenue", 125)>>}}

Dbs == ContractDbs \cup PairDbs \cup FixedDbs \cup AssetDbs \cup LoanDbs
       \cup ActualDbs \cup MixedDbs

InitialCash == {0, 1000000}

----------------------------------------------------------------------------
(* The state machine *)

Zero(window) == [m \in Range(window) |-> 0]

Init ==
    /\ db \in Dbs
    /\ start_year \in StartYears
    /\ years \in YearsArg
    /\ initial_cash \in IF db \in MixedDbs THEN InitialCash ELSE {0}
    /\ pc = "start"
    /\ error = "none"
    /\ months = <<>>
    /\ plans = <<>>
    /\ revenue = <<>> /\ variable_costs = <<>> /\ cash_inflows = <<>>
    /\ cash_outflows = <<>> /\ fixed_costs = <<>>
    /\ amortization = <<>> /\ loan_interest = <<>> /\ loan_principal = <<>>
    /\ breakdown = <<>>
    /\ actuals = <<>>
    /\ rows = <<>>

\* lines 78-85
GenerateMonths ==
    /\ pc = "start"
    /\ months' = generate_months(start_year, years)
    /\ revenue' = Zero(months')
    /\ variable_costs' = Zero(months')
    /\ cash_inflows' = Zero(months')
    /\ cash_outflows' = Zero(months')
    /\ fixed_costs' = Zero(months')
    /\ pc' = "contracts"
    /\ UNCHANGED <<db, start_year, years, initial_cash, error, plans, amortization,
                   loan_interest, loan_principal, breakdown, actuals, rows>>

\* lines 88-92 without the `if not offer: continue`
plan_of_unchecked(k) == collect_payment_plan(db.events, db.contracts[k], months)

\* lines 88-92: the plan of the k-th contract, empty when its offer does not resolve
plan_of(k) ==
    IF ensure_offer_map(db.offers, db.contracts[k].offer_id) = None THEN <<>>
    ELSE collect_payment_plan(db.events, db.contracts[k], months)

\* lines 88-101
Contracts ==
    /\ pc = "contracts"
    /\ plans' = [k \in DOMAIN db.contracts |-> plan_of(k)]
    /\ LET offer(k) == ensure_offer_map(db.offers, db.contracts[k].offer_id)
           Var(k, m) == IF offer(k) = None THEN 0
                        ELSE plan_variable_at(plans'[k], offer(k)[1], m)
           Inflow(k, m) == IF offer(k) = None THEN 0
                           ELSE plan_inflow_at(plans'[k], db.contracts[k], m)
       IN  /\ revenue' = [m \in DOMAIN revenue |-> revenue[m] +
                SumSeq([k \in DOMAIN db.contracts |-> plan_revenue_at(plans'[k], m)])]
           /\ variable_costs' = [m \in DOMAIN variable_costs |-> variable_costs[m] +
                SumSeq([k \in DOMAIN db.contracts |-> Var(k, m)])]
           /\ cash_inflows' = [m \in DOMAIN cash_inflows |-> cash_inflows[m] +
                SumSeq([k \in DOMAIN db.contracts |-> Inflow(k, m)])]
    /\ pc' = "fixed"
    /\ UNCHANGED <<db, start_year, years, initial_cash, error, months, cash_outflows,
                   fixed_costs, amortization, loan_interest, loan_principal,
                   breakdown, actuals, rows>>

\* lines 104-108
FixedCosts ==
    /\ pc = "fixed"
    /\ LET Add(m) == SumSeq([k \in DOMAIN db.fixed |-> fixed_cost_at(db.fixed[k], m)])
       IN  /\ fixed_costs' = [m \in DOMAIN fixed_costs |-> fixed_costs[m] + Add(m)]
           /\ cash_outflows' = [m \in DOMAIN cash_outflows |-> cash_outflows[m] + Add(m)]
    /\ pc' = "assets"
    /\ UNCHANGED <<db, start_year, years, initial_cash, error, months, plans, revenue,
                   variable_costs, cash_inflows, amortization, loan_interest,
                   loan_principal, breakdown, actuals, rows>>

\* line 113 divides by amortization_months: float / 0 raises ZeroDivisionError
asset_raises(asset) == asset.amortization_months = 0

\* lines 111-118
Assets ==
    /\ pc = "assets"
    /\ IF \E k \in DOMAIN db.assets : asset_raises(db.assets[k])
         THEN /\ pc' = "raised"
              /\ error' = "ZeroDivisionError"
              /\ UNCHANGED <<amortization, cash_outflows>>
         ELSE /\ amortization' = [m \in Range(months) |->
                    SumSeq([k \in DOMAIN db.assets |-> asset_amortization_at(db.assets[k], m)])]
              /\ cash_outflows' = [m \in DOMAIN cash_outflows |-> cash_outflows[m] +
                    SumSeq([k \in DOMAIN db.assets |-> asset_outflow_at(db.assets[k], m)])]
              /\ pc' = "loans"
              /\ UNCHANGED error
    /\ UNCHANGED <<db, start_year, years, initial_cash, months, plans, revenue,
                   variable_costs, cash_inflows, fixed_costs, loan_interest,
                   loan_principal, breakdown, actuals, rows>>

\* line 125 divides by 1 - pow(1 + monthly_rate, -term_months): float / 0.0 raises
loan_raises(loan) == annuity_denominator(loan).num = 0

\* lines 121-136
Loans ==
    /\ pc = "loans"
    /\ IF \E k \in DOMAIN db.loans : loan_raises(db.loans[k])
         THEN /\ pc' = "raised"
              /\ error' = "ZeroDivisionError"
              /\ UNCHANGED <<loan_interest, loan_principal, cash_outflows>>
         ELSE LET Add(m, field) ==
                    SumSeq([k \in DOMAIN db.loans |->
                              LoanSum(loan_schedule(db.loans[k], months), m, field)])
              IN  /\ loan_interest' = [m \in Range(months) |-> Add(m, "interest")]
                  /\ loan_principal' = [m \in Range(months) |-> Add(m, "principal")]
                  /\ cash_outflows' = [m \in DOMAIN cash_outflows |->
                                          cash_outflows[m] + Add(m, "payment")]
                  /\ pc' = "build"
                  /\ UNCHANGED error
    /\ UNCHANGED <<db, start_year, years, initial_cash, months, plans, revenue,
                   variable_costs, cash_inflows, fixed_costs, amortization,
                   breakdown, actuals, rows>>

\* lines 139-164
BuildBreakdown ==
    /\ pc = "build"
    /\ breakdown' = [i \in DOMAIN months |->
          monthly_breakdown(months[i], revenue[months[i]], variable_costs[months[i]],
                            fixed_costs[months[i]], amortization[months[i]],
                            loan_interest[months[i]], loan_principal[months[i]],
                            cumulative_cash(months, cash_inflows, cash_outflows,
                                            initial_cash, i))]
    /\ pc' = "returned"
    /\ UNCHANGED <<db, start_year, years, initial_cash, error, months, plans, revenue,
                   variable_costs, cash_inflows, cash_outflows, fixed_costs,
                   amortization, loan_interest, loan_principal, actuals, rows>>

\* lines 180-181: compute_projection has returned the budget
AggregateActuals ==
    /\ pc = "returned"
    /\ actuals' = aggregate_actuals(db.actuals)
    /\ pc' = "rows"
    /\ UNCHANGED <<db, start_year, years, initial_cash, error, months, plans, revenue,
                   variable_costs, cash_inflows, cash_outflows, fixed_costs,
                   amortization, loan_interest, loan_principal, breakdown, rows>>

\* lines 183-247
BuildRows ==
    /\ pc = "rows"
    /\ rows' = [i \in DOMAIN breakdown |->
          budget_vs_actual_row(breakdown[i],
                               month_actuals(actuals, breakdown[i].month),
                               actual_cash(breakdown, actuals, initial_cash, i))]
    /\ pc' = "done"
    /\ UNCHANGED <<db, start_year, years, initial_cash, error, months, plans, revenue,
                   variable_costs, cash_inflows, cash_outflows, fixed_costs,
                   amortization, loan_interest, loan_principal, breakdown, actuals>>

Next ==
    \/ GenerateMonths
    \/ Contracts
    \/ FixedCosts
    \/ Assets
    \/ Loans
    \/ BuildBreakdown
    \/ AggregateActuals
    \/ BuildRows

Spec == Init /\ [][Next]_vars


----------------------------------------------------------------------------
(* What the claims say, in the claims' own terms *)

\* compute_projection has just returned its statements
Returned == pc = "returned"

\* the contract's offer resolves
Resolvable(c) == \E i \in DOMAIN db.offers : db.offers[i].id = c.offer_id

\* the sum of amount x (1 + tax_rate) over the payment-plan entries of month m
ClaimInflow(m) ==
    SumSeq([k \in DOMAIN plans |->
        SumSeq([j \in DOMAIN plans[k] |->
            IF plans[k][j].month = m
                THEN (plans[k][j].amount * (db.contracts[k].tax_rate.den
                                            + db.contracts[k].tax_rate.num))
                     \div db.contracts[k].tax_rate.den
                ELSE 0])])

\* month m is the i-th month (from 0) counted from the month of date dt
MonthsFrom(dt, m) == (m.y * 12 + m.m) - (dt.y * 12 + dt.m)

\* the fixed-cost amounts, asset purchase amounts and loan level payments of month m
\* (an asset or loan over no month, amortization_months or term_months < 0, has none)
ClaimOutflow(m) ==
    SumSeq([k \in DOMAIN db.fixed |->
        IF /\ MonthsFrom(db.fixed[k].start_date, m) >= 0
           /\ \/ db.fixed[k].end_date = None
              \/ MonthsFrom(db.fixed[k].end_date[1], m) <= 0
            THEN db.fixed[k].monthly_amount ELSE 0])
    + SumSeq([k \in DOMAIN db.assets |->
        IF /\ db.assets[k].amortization_months > 0
           /\ MonthsFrom(db.assets[k].purchase_date, m) = 0
            THEN db.assets[k].purchase_amount ELSE 0])
    + SumSeq([k \in DOMAIN db.loans |->
        IF /\ MonthsFrom(db.loans[k].start_date, m) >= 0
           /\ MonthsFrom(db.loans[k].start_date, m) < db.loans[k].term_months
            THEN loan_payment(db.loans[k]) ELSE 0])

\* initial_cash plus the net flows of the first i months, at full precision
RECURSIVE ClaimBalance(_)
ClaimBalance(i) ==
    IF i = 0 THEN initial_cash
    ELSE ClaimBalance(i - 1) + ClaimInflow(months[i]) - ClaimOutflow(months[i])

\* C1 as stated: the reported cash values obey
\* cash[i] = cash[i-1] + cash_inflow[i] - cash_outflow[i] exactly, cash[-1] = initial_cash.
C1_CashRecurrenceExact ==
    Returned =>
        \A i \in DOMAIN breakdown :
            breakdown[i].cash =
                (IF i = 1 THEN initial_cash ELSE breakdown[i - 1].cash)
                + ClaimInflow(months[i]) - ClaimOutflow(months[i])

\* C1 as amended: the recurrence holds for the full-precision running balance, and the
\* reported cash of month i is that balance rounded to 2 decimals.
C1_CashIsRoundedBalance ==
    Returned =>
        /\ Len(breakdown) = Len(months)
        /\ \A i \in DOMAIN breakdown : breakdown[i].cash = round2(ClaimBalance(i))

\* a returned statement with a month that has both inflow and outflow and a
\* running balance that is not a whole number of cents
C1_Witness ==
    /\ Returned
    /\ \E i \in DOMAIN breakdown :
          /\ i > 1
          /\ ClaimInflow(months[i]) # 0
          /\ ClaimOutflow(months[i]) # 0
          /\ ClaimBalance(i) % 10 # 0
          /\ ClaimBalance(i - 1) # initial_cash


\* the Loans step has run to its end
Scheduled == pc = "build"

\* the balance left after the first i principal portions of the loan's schedule
RECURSIVE ClaimLoanBalance(_, _)
ClaimLoanBalance(loan, i) ==
    IF i = 0 THEN loan.principal
    ELSE LET b == ClaimLoanBalance(loan, i - 1)
         IN  b - (loan_payment(loan) - MulRate(b, monthly_rate(loan)))

\* the interest of term index i: monthly_rate x the balance after i portions
ClaimLoanInterest(loan, i) == MulRate(ClaimLoanBalance(loan, i), monthly_rate(loan))

\* month m is a month of the loan's term
InTerm(loan, m) ==
    /\ MonthsFrom(loan.start_date, m) >= 0
    /\ MonthsFrom(loan.start_date, m) < loan.term_months

\* C2 as stated: in every in-window month of a loan's term, at term index i, the
\* interest booked is monthly_rate x (principal less the i preceding principal
\* portions) and the principal portion is payment - interest, also for a loan whose
\* first months lie before the window.
C2_InterestOnRunningBalance ==
    Scheduled =>
        \A m \in Range(months) :
            /\ loan_interest[m] =
                 SumSeq([k \in DOMAIN db.loans |->
                    IF InTerm(db.loans[k], m)
                        THEN ClaimLoanInterest(db.loans[k],
                                               MonthsFrom(db.loans[k].start_date, m))
                        ELSE 0])
            /\ loan_principal[m] =
                 SumSeq([k \in DOMAIN db.loans |->
                    IF InTerm(db.loans[k], m)
                        THEN loan_payment(db.loans[k])
                             - ClaimLoanInterest(db.loans[k],
                                                 MonthsFrom(db.loans[k].start_date, m))
                        ELSE 0])

\* a record the claim calls degenerate
DegenerateAsset(a) == a.amortization_months <= 0
DegenerateLoan(l) == l.term_months <= 0 \/ l.annual_rate.num = 0

\* C3 as stated: a degenerate Asset or Loan is rejected with a validation error where
\* it is scheduled; the call never ends in a division by zero and never goes on to
\* return a statement that ignores the record.
C3_DegenerateRejected ==
    /\ error # "ZeroDivisionError"
    /\ pc = "raised" => error = "ValidationError"
    /\ (\E k \in DOMAIN db.assets : DegenerateAsset(db.assets[k]))
          => pc \in {"start", "contracts", "fixed", "assets", "raised"}
    /\ (\E k \in DOMAIN db.loans : DegenerateLoan(db.loans[k]))
          => pc \in {"start", "contracts", "fixed", "assets", "loans", "raised"}


\* the Contracts step has run
Planned == pc = "fixed"

\* the date's month lies in the window
InWindowMonth(dt) ==
    /\ MonthsFrom(months[1], dt) >= 0
    /\ MonthsFrom(months[1], dt) < Len(months)

\* the contract's PaymentEvent rows due in the window, as (due month, amount) entries
ClaimEvents(c) ==
    LET Mine(e) == e.contract_id = c.id /\ InWindowMonth(e.due_date)
        sel == SelectSeq(db.events, Mine)
    IN  [i \in DOMAIN sel |->
           [month |-> Date(sel[i].due_date.y, sel[i].due_date.m, 1),
            amount |-> sel[i].amount]]

\* month m is inside the contract's start/end bounds
InBounds(c, m) ==
    /\ MonthsFrom(c.start_date, m) >= 0
    /\ c.end_date = None \/ MonthsFrom(c.end_date[1], m) <= 0

\* the sum of the amounts of the entries of month m
EntrySum(entries, m) ==
    SumSeq([i \in DOMAIN entries |-> IF entries[i].month = m THEN entries[i].amount ELSE 0])

\* C4: a contract with a resolvable offer and at least one PaymentEvent due in the
\* window has exactly its in-window events as plan (amounts verbatim) and books no
\* recurrence-derived revenue; with no in-window event its plan is the
\* recurrence-derived one.
C4_ExplicitEventsReplacePlan ==
    Planned =>
        /\ \A k \in DOMAIN db.contracts :
              Resolvable(db.contracts[k]) =>
                  plans[k] = IF ClaimEvents(db.contracts[k]) # <<>>
                                THEN ClaimEvents(db.contracts[k])
                                ELSE synthetic_plan(db.contracts[k], months)
        /\ (Len(db.contracts) = 1 /\ Resolvable(db.contracts[1])
            /\ ClaimEvents(db.contracts[1]) # <<>>)
              => \A m \in Range(months) :
                     revenue[m] = EntrySum(ClaimEvents(db.contracts[1]), m)

\* a monthly contract whose recurrence covers months its one in-window event does not,
\* and those months have no revenue
C4_Witness ==
    /\ Planned
    /\ Len(db.contracts) = 1
    /\ Resolvable(db.contracts[1])
    /\ db.contracts[1].recurrence = "monthly"
    /\ Len(ClaimEvents(db.contracts[1])) = 1
    /\ Len(synthetic_plan(db.contracts[1], months)) > 1
    /\ \E m \in Range(months) : InBounds(db.contracts[1], m) /\ revenue[m] = 0
    /\ \E m \in Range(months) : revenue[m] = 50000

\* the rate the claim gives an offer: its variable_cost_rate when set (0 included),
\* 0.88 for a license with none set, no cost otherwise
ClaimRate(o) ==
    IF o.variable_cost_rate # None THEN o.variable_cost_rate[1]
    ELSE IF o.offer_type = "license" THEN Frac(88, 100)
    ELSE Frac(0, 1)

\* the offer a resolvable contract refers to
OfferOf(c) == db.offers[CHOOSE i \in DOMAIN db.offers : db.offers[i].id = c.offer_id]

\* C7 as stated: every in-window plan entry adds amount x rate to its month's variable
\* cost, rate being the offer's variable_cost_rate whenever set (a set 0 included, for
\* a license too), 0.88 for a license with no rate, and nothing otherwise.
C7_VariableCostRate ==
    Planned =>
        \A m \in Range(months) :
            variable_costs[m] =
                SumSeq([k \in DOMAIN db.contracts |->
                    IF Resolvable(db.contracts[k])
                        THEN (EntrySum(plans[k], m) * ClaimRate(OfferOf(db.contracts[k])).num)
                             \div ClaimRate(OfferOf(db.contracts[k])).den
                        ELSE 0])

\* the contract is a resolvable one of the given recurrence with no in-window event
Recurring(c, rec) ==
    /\ Resolvable(c)
    /\ c.recurrence = rec
    /\ ClaimEvents(c) = <<>>

\* C9: a monthly contract with a resolvable offer and no in-window event adds
\* total_value x quantity of revenue and total_value x quantity x (1 + tax_rate) of
\* cash inflow to every window month inside its start/end bounds and nothing to any
\* other month; total_value 100, quantity 2, tax 0.2, no end, started at the window's
\* first month gives 200 and 240 in every month.
C9_MonthlyRecurrence ==
    (Planned /\ \A k \in DOMAIN db.contracts : Recurring(db.contracts[k], "monthly")) =>
        /\ \A m \in Range(months) :
              /\ revenue[m] =
                    SumSeq([k \in DOMAIN db.contracts |->
                        IF InBounds(db.contracts[k], m)
                            THEN db.contracts[k].total_value * db.contracts[k].quantity
                            ELSE 0])
              /\ cash_inflows[m] =
                    SumSeq([k \in DOMAIN db.contracts |->
                        IF InBounds(db.contracts[k], m)
                            THEN (db.contracts[k].total_value * db.contracts[k].quantity
                                  * (db.contracts[k].tax_rate.den + db.contracts[k].tax_rate.num))
                                 \div db.contracts[k].tax_rate.den
                            ELSE 0])
        /\ (/\ Len(db.contracts) = 1
            /\ db.contracts[1].total_value = 100000
            /\ db.contracts[1].quantity = 2
            /\ db.contracts[1].tax_rate = Frac(1, 5)
            /\ db.contracts[1].end_date = None
            /\ month_start(db.contracts[1].start_date) = months[1])
              => \A m \in Range(months) : revenue[m] = 200000 /\ cash_inflows[m] = 240000

\* the spec's scenario after the Contracts step, over the longest window
C9_Witness ==
    /\ Planned
    /\ Len(db.contracts) = 1
    /\ Recurring(db.contracts[1], "monthly")
    /\ db.contracts[1].total_value = 100000
    /\ db.contracts[1].quantity = 2
    /\ db.contracts[1].tax_rate = Frac(1, 5)
    /\ db.contracts[1].end_date = None
    /\ month_start(db.contracts[1].start_date) = months[1]
    /\ years = MaxYears
    /\ \A m \in Range(months) : revenue[m] = 200000 /\ cash_inflows[m] = 240000

\* C10: an annual contract with a resolvable offer and no in-window event books
\* total_value x quantity in the window months whose calendar month is its start
\* date's and that lie inside its start/end bounds, and 0 in every other month.
C10_AnnualRecurrence ==
    (Planned /\ \A k \in DOMAIN db.contracts : Recurring(db.contracts[k], "annual")) =>
        \A m \in Range(months) :
            revenue[m] =
                SumSeq([k \in DOMAIN db.contracts |->
                    IF m.m = db.contracts[k].start_date.m /\ InBounds(db.contracts[k], m)
                        THEN db.contracts[k].total_value * db.contracts[k].quantity
                        ELSE 0])

\* an annual contract booked in two different years of the window, nowhere else
C10_Witness ==
    /\ Planned
    /\ Len(db.contracts) = 1
    /\ Recurring(db.contracts[1], "annual")
    /\ Cardinality({m \in Range(months) : revenue[m] # 0}) = 2
    /\ \A m \in Range(months) : revenue[m] # 0 => m.m = db.contracts[1].start_date.m


\* the Assets step has run to its end
Amortized == pc = "loans"

\* month m is one of the asset's amortization months
InAmortization(a, m) ==
    /\ MonthsFrom(a.purchase_date, m) >= 0
    /\ MonthsFrom(a.purchase_date, m) < a.amortization_months

\* C8: every asset with amortization_months > 0 adds purchase_amount /
\* amortization_months of amortization to each window month among the
\* amortization_months months from its purchase month and to no other month, and its
\* whole purchase_amount of cash outflow to its purchase month and to no other month.
C8_AssetAmortization ==
    Amortized =>
        \A m \in Range(months) :
            /\ amortization[m] =
                  SumSeq([k \in DOMAIN db.assets |->
                      IF db.assets[k].amortization_months > 0 /\ InAmortization(db.assets[k], m)
                          THEN db.assets[k].purchase_amount \div db.assets[k].amortization_months
                          ELSE 0])
            /\ \A k \in DOMAIN db.assets :
                  InAmortization(db.assets[k], m) =>
                      db.assets[k].purchase_amount =
                          db.assets[k].amortization_months
                          * (db.assets[k].purchase_amount \div db.assets[k].amortization_months)
            /\ cash_outflows[m] - fixed_costs[m] =
                  SumSeq([k \in DOMAIN db.assets |->
                      IF /\ db.assets[k].amortization_months > 0
                         /\ MonthsFrom(db.assets[k].purchase_date, m) = 0
                          THEN db.assets[k].purchase_amount
                          ELSE 0])

\* the spec's scenario: one asset of 1200 over 12 months bought at the window's first
\* month: 100.00 of amortization in each of the 12 months, 1200.00 of outflow in the first
C8_Witness ==
    /\ Amortized
    /\ Len(db.assets) = 1
    /\ db.assets[1].purchase_amount = 1200000
    /\ db.assets[1].amortization_months = 12
    /\ month_start(db.assets[1].purchase_date) = months[1]
    /\ \A i \in 1..12 : amortization[months[i]] = 100000
    /\ cash_outflows[months[1]] = 1200000
    /\ \A i \in 2..Len(months) : cash_outflows[months[i]] = 0

\* the call has returned its rows
Done == pc = "done"

LineItems == {"revenue", "variable", "fixed", "amortization", "interest", "principal",
              "ebt", "cash"}

\* the budget / actual / variance a row reports for a line item
RowBudget(row, item) ==
    CASE item = "revenue" -> row.budget_revenue
      [] item = "variable" -> row.budget_variable
      [] item = "fixed" -> row.budget_fixed
      [] item = "amortization" -> row.budget_amortization
      [] item = "interest" -> row.budget_interest
      [] item = "principal" -> row.budget_principal
      [] item = "ebt" -> row.budget_ebt
      [] item = "cash" -> row.budget_cash

RowActual(row, item) ==
    CASE item = "revenue" -> row.actual_revenue
      [] item = "variable" -> row.actual_variable
      [] item = "fixed" -> row.actual_fixed
      [] item = "amortization" -> row.actual_amortization
      [] item = "interest" -> row.actual_interest
      [] item = "principal" -> row.actual_principal
      [] item = "ebt" -> row.actual_ebt
      [] item = "cash" -> row.actual_cash

RowVariance(row, item) ==
    CASE item = "revenue" -> row.variance_revenue
      [] item = "variable" -> row.variance_variable
      [] item = "fixed" -> row.variance_fixed
      [] item = "amortization" -> row.variance_amortization
      [] item = "interest" -> row.variance_interest
      [] item = "principal" -> row.variance_principal
      [] item = "ebt" -> row.variance_ebt
      [] item = "cash" -> row.variance_cash

\* C5 as stated: in every row and for every line item the reported variance is the
\* reported actual minus the reported budget, exactly.
C5_VarianceOfReportedValues ==
    Done =>
        \A i \in DOMAIN rows : \A item \in LineItems :
            RowVariance(rows[i], item) = RowActual(rows[i], item) - RowBudget(rows[i], item)

\* no ActualEntry is dated in month m
NoActuals(m) ==
    \A k \in DOMAIN db.actuals : MonthsFrom(db.actuals[k].entry_date, m) # 0

\* C6: the call returns one row per month of the budget window, in the budget's order,
\* and in every month without an ActualEntry each actual P&L line item is 0 and its
\* variance is the negative of its budget value.
C6_MissingActualsAreZero ==
    Done =>
        /\ Len(rows) = Len(months)
        /\ \A i \in DOMAIN rows :
              /\ rows[i].month = months[i]
              /\ rows[i].month = breakdown[i].month
              /\ NoActuals(months[i]) =>
                    \A item \in LineItems \ {"cash"} :
                        /\ RowActual(rows[i], item) = 0
                        /\ RowVariance(rows[i], item) = -RowBudget(rows[i], item)

\* rows returned from a store that has actuals for one month and none for another
\* month whose budget is not zero
C6_Witness ==
    /\ Done
    /\ db.actuals # <<>>
    /\ \E i \in DOMAIN rows : ~NoActuals(months[i])
    /\ \E i \in DOMAIN rows :
          /\ NoActuals(months[i])
          /\ rows[i].budget_revenue # 0
          /\ rows[i].variance_revenue = -rows[i].budget_revenue
          /\ rows[i].budget_ebt # 0


\* the store without the contracts whose offer_id names no Offer and without the
\* PaymentEvent rows of those contracts
KeptContracts == SelectSeq(db.contracts, Resolvable)

KeptEvents ==
    LET OfKept(e) == \E k \in DOMAIN KeptContracts : KeptContracts[k].id = e.contract_id
    IN  SelectSeq(db.events, OfKept)

\* what the contracts of that smaller store add to month m
KeptPlan(k) == collect_payment_plan(KeptEvents, KeptContracts[k], months)

KeptRevenue(m) ==
    SumSeq([k \in DOMAIN KeptContracts |-> plan_revenue_at(KeptPlan(k), m)])

KeptVariable(m) ==
    SumSeq([k \in DOMAIN KeptContracts |->
              plan_variable_at(KeptPlan(k), OfferOf(KeptContracts[k]), m)])

KeptInflow(m) ==
    SumSeq([k \in DOMAIN KeptContracts |->
              plan_inflow_at(KeptPlan(k), KeptContracts[k], m)])

\* C11: a contract whose offer_id resolves to no Offer raises nothing and leaves no
\* trace: revenue, variable cost and cash inflow of every month, and the statements
\* returned, are those of the store without that contract and its PaymentEvent rows.
C11_UnresolvedContractExcluded ==
    /\ pc \in {"contracts", "fixed"} => error = "none"
    /\ Planned =>
          \A m \in Range(months) :
              /\ revenue[m] = KeptRevenue(m)
              /\ variable_costs[m] = KeptVariable(m)
              /\ cash_inflows[m] = KeptInflow(m)
    /\ Returned =>
          \A i \in DOMAIN months :
              breakdown[i] =
                  monthly_breakdown(months[i], KeptRevenue(months[i]),
                      KeptVariable(months[i]), fixed_costs[months[i]],
                      amortization[months[i]], loan_interest[months[i]],
                      loan_principal[months[i]],
                      cumulative_cash(months, [m \in Range(months) |-> KeptInflow(m)],
                                      cash_outflows, initial_cash, i))

\* statements returned from a store with a contract that resolves, booked in the
\* window, and one that does not, which has a payment event due in the window
C11_Witness ==
    /\ Returned
    /\ error = "none"
    /\ \E k \in DOMAIN db.contracts :
          /\ ~Resolvable(db.contracts[k])
          /\ ClaimEvents(db.contracts[k]) # <<>>
          /\ Len(synthetic_plan(db.contracts[k], months)) > 0
    /\ \E k \in DOMAIN db.contracts : Resolvable(db.contracts[k])
    /\ \E i \in DOMAIN breakdown : breakdown[i].revenue = 100000
    /\ \A i \in DOMAIN breakdown : breakdown[i].revenue \in {0, 100000}

====
